---- MODULE Spec2Model ----
(***************************************************************************)
(* A model of the ZLDAP agent (src/agent/src/main.rs): the heartbeat poll *)
(* loop of main, the per-task pipeline of process_task, and the pure      *)
(* helpers it calls (file name derivation, extract_keywords, the registry *)
(* scan of find_uninstall_command, split_args, parse_command_string,      *)
(* get_system_info and derive_pseudo_mac).                                *)
(*                                                                         *)
(* A Rust string is modelled as a sequence of characters; a character is  *)
(* a one-element TLA+ string.  The two non-ASCII characters the model     *)
(* knows are written "<e9>" (U+00E9, small e acute, 2 bytes in UTF-8)     *)
(* and "<c9>" (U+00C9, capital E acute, 2 bytes in UTF-8).                *)
(***************************************************************************)
EXTENDS Integers, Sequences, FiniteSets, TLC

VARIABLES
    platform,       \* cfg!(target_os): "windows" or "linux", fixed at build time
    registry,       \* the uninstall registry, flattened in scan order (windows)
    host,           \* the machine: hostname, its hash, what get_mac_address() gives
    pc,             \* position of the single control flow
    machine_token,  \* main: let mut machine_token: Option<String>
    lastReq,        \* the request most recently handed to the HTTP client
    hb_token,       \* hb_resp.machine_token of the current poll response
    batch,          \* hb_resp.tasks as decoded from the current poll response
    idx,            \* position of the for loop in batch (0: not in the loop)
    ptoken,         \* process_task: the machine_token parameter
    file_name,      \* process_task: file_name
    command_path,   \* process_task: command_path
    args,           \* process_task: args
    parsed,         \* process_task: (cmd_exe, cmd_args_str) of line 324, None before
    children,       \* child processes currently running (batch positions)
    ack,            \* process_task: (ack_status, message), None before step 3
    result,         \* what process_task returned for the current task
    tstat,          \* what the current process_task call has done so far
    sys_info,       \* the SystemInfo most recently built by get_system_info
    cyc,            \* what the current poll cycle and the one before it have done
    software_name,  \* find_uninstall_command / extract_keywords: the argument
    keywords,       \* find_uninstall_command: keywords
    ri,             \* find_uninstall_command: position of the entry scan
    best_match,     \* find_uninstall_command: best_match
    match_score,    \* find_uninstall_command: match_score of the entry scanned last
    qualified       \* find_uninstall_command: match_score >= min_required, same entry

vars == <<platform, registry, host, pc, machine_token, lastReq, hb_token, batch, idx, ptoken,
          file_name, command_path, args, parsed, children, ack, result, tstat,
          sys_info, cyc, software_name, keywords, ri, best_match, match_score, qualified>>

loopVars == <<pc, machine_token, lastReq, hb_token, batch, idx, ptoken, file_name,
              command_path, args, parsed, children, ack, result, tstat,
                   sys_info, cyc>>

findVars == <<software_name, keywords, ri, best_match, match_score, qualified>>

(***************************************************************************)
(* Option<T>                                                               *)
(***************************************************************************)
None == [some |-> FALSE]

Some(v) == [some |-> TRUE, val |-> v]

IsSome(o) == o.some

(***************************************************************************)
(* Characters and strings                                                  *)
(***************************************************************************)
UpperAZ == <<"A","B","C","D","E","F","G","H","I","J","K","L","M",
             "N","O","P","Q","R","S","T","U","V","W","X","Y","Z">>

LowerAZ == <<"a","b","c","d","e","f","g","h","i","j","k","l","m",
             "n","o","p","q","r","s","t","u","v","w","x","y","z">>

Range(s) == {s[i] : i \in DOMAIN s}

\* char::is_uppercase
IsUppercase(c) == c \in Range(UpperAZ) \cup {"<c9>"}

\* char::is_ascii_alphabetic
IsAsciiAlpha(c) == c \in Range(UpperAZ) \cup Range(LowerAZ)

\* char::is_whitespace
IsWhitespace(c) == c \in {" ", "\t"}

\* char::to_lowercase
LowerChar(c) ==
    IF c \in Range(UpperAZ)
    THEN LowerAZ[CHOOSE i \in DOMAIN UpperAZ : UpperAZ[i] = c]
    ELSE IF c = "<c9>" THEN "<e9>" ELSE c

\* str::to_lowercase
ToLowercase(s) == [i \in DOMAIN s |-> LowerChar(s[i])]

\* char::len_utf8
Utf8Len(c) == IF c \in {"<e9>", "<c9>"} THEN 2 ELSE 1

RECURSIVE ByteLen(_)
\* str::len: the length in bytes
ByteLen(s) == IF s = <<>> THEN 0 ELSE Utf8Len(Head(s)) + ByteLen(Tail(s))

\* str::ends_with
EndsWith(s, suf) ==
    /\ Len(suf) <= Len(s)
    /\ SubSeq(s, Len(s) - Len(suf) + 1, Len(s)) = suf

\* str::starts_with
StartsWith(s, pre) == Len(pre) <= Len(s) /\ SubSeq(s, 1, Len(pre)) = pre

\* str::contains
Contains(s, sub) ==
    \E i \in 0..(Len(s) - Len(sub)) : SubSeq(s, i + 1, i + Len(sub)) = sub

\* str::find with a set of characters: the first position holding one of cs, 0 if none
FindAny(s, cs) ==
    IF \E i \in DOMAIN s : s[i] \in cs
    THEN CHOOSE i \in DOMAIN s : s[i] \in cs /\ \A j \in 1..(i - 1) : s[j] \notin cs
    ELSE 0

\* the last position holding one of cs, 0 if none
RFindAny(s, cs) ==
    IF \E i \in DOMAIN s : s[i] \in cs
    THEN CHOOSE i \in DOMAIN s : s[i] \in cs /\ \A j \in (i + 1)..Len(s) : s[j] \notin cs
    ELSE 0

\* str::split(c).last(): what follows the last c (the whole string without one)
SplitLast(s, c) == SubSeq(s, RFindAny(s, {c}) + 1, Len(s))

\* str::split(c).next(): what precedes the first c (the whole string without one)
SplitFirst(s, c) ==
    IF FindAny(s, {c}) = 0 THEN s ELSE SubSeq(s, 1, FindAny(s, {c}) - 1)

RECURSIVE SplitAny(_, _)
\* the segments of s between the characters of cs, empty segments included
SplitAny(s, cs) ==
    IF FindAny(s, cs) = 0 THEN <<s>>
    ELSE <<SubSeq(s, 1, FindAny(s, cs) - 1)>>
         \o SplitAny(SubSeq(s, FindAny(s, cs) + 1, Len(s)), cs)

(***************************************************************************)
(* std::path::Path::file_name                                              *)
(***************************************************************************)
\* std::path::is_separator
Separators(pf) == IF pf = "windows" THEN {"/", "\\"} ELSE {"/"}

\* The length of the path prefix (windows only): a drive X:, a device
\* namespace \\.\name or a UNC root \\server\share.  A verbatim prefix \\?\
\* needs a '?', which the file name derivation has removed before.
PrefixLen(pf, s) ==
    LET sep == Separators(pf)
        next(t) == IF FindAny(t, sep) = 0 THEN Len(t) ELSE FindAny(t, sep) - 1
        rest2 == SubSeq(s, 3, Len(s))
        rest4 == SubSeq(s, 5, Len(s))
        server == next(rest2)
        afterServer == SubSeq(rest2, server + 2, Len(rest2))
        share == next(afterServer)
    IN  IF pf # "windows" THEN 0
        ELSE IF Len(s) >= 2 /\ s[1] \in sep /\ s[2] \in sep
        THEN IF Len(s) >= 4 /\ s[3] = "." /\ s[4] \in sep
             THEN 4 + next(rest4)
             ELSE IF server > 0 /\ share > 0
                  THEN 2 + server + 1 + share
                  ELSE 0
        ELSE IF Len(s) >= 2 /\ IsAsciiAlpha(s[1]) /\ s[2] = ":" THEN 2
        ELSE 0

RECURSIVE LastComponent(_)
\* Components::next_back over the segments of a path body: trailing empty
\* segments and "." segments are normalised away, except in first position
LastComponent(segs) ==
    IF Len(segs) = 1 THEN segs[1]
    ELSE IF segs[Len(segs)] \in {<<>>, <<".">>}
         THEN LastComponent(SubSeq(segs, 1, Len(segs) - 1))
         ELSE segs[Len(segs)]

\* Path::new(s).file_name(): Some(name) when the last component is a normal
\* one, None when the path is empty or ends in a root, a prefix, "." or ".."
PathFileName(pf, s) ==
    LET body == SubSeq(s, PrefixLen(pf, s) + 1, Len(s))
        last == LastComponent(SplitAny(body, Separators(pf)))
    IN  IF last \in {<<>>, <<".">>, <<".", ".">>} THEN None ELSE Some(last)

INSTALLER_EXE == <<"i","n","s","t","a","l","l","e","r",".","e","x","e">>

\* LocalFileName without the Path::file_name step of lines 270-273
LocalFileNameUnsanitized(pf, download_url) ==
    LET raw_name == SplitLast(download_url, "/")
        base_name == SplitFirst(raw_name, "?")
    IN  IF base_name # <<>> THEN base_name ELSE INSTALLER_EXE

\* process_task: raw_name, base_name and file_name
LocalFileName(pf, download_url) ==
    LET raw_name == SplitLast(download_url, "/")
        base_name == SplitFirst(raw_name, "?")
        fname == PathFileName(pf, base_name)
    IN  IF IsSome(fname) THEN fname.val ELSE INSTALLER_EXE

(***************************************************************************)
(* extract_keywords                                                        *)
(***************************************************************************)
STOP_WORDS ==
    << <<"s","t","a","n","d","a","l","o","n","e">>,
       <<"s","i","l","e","n","t">>,
       <<"s","e","t","u","p">>,
       <<"i","n","s","t","a","l","l","e","r">>,
       <<"i","n","s","t","a","l","l">>,
       <<"x","6","4">>,
       <<"x","8","6">>,
       <<"w","i","n">>,
       <<"w","i","n","d","o","w","s">> >>

RECURSIVE KeywordWalk(_, _, _)
\* extract_keywords: the loop over name.chars() and the push after it
KeywordWalk(name, words, current_word) ==
    IF name = <<>>
    THEN IF current_word # <<>>
         THEN Append(words, ToLowercase(current_word))
         ELSE words
    ELSE LET c == Head(name) IN
         IF c \in {"_", "-", " ", "."}
         THEN IF current_word # <<>>
              THEN KeywordWalk(Tail(name), Append(words, ToLowercase(current_word)), <<>>)
              ELSE KeywordWalk(Tail(name), words, current_word)
         ELSE IF IsUppercase(c) /\ current_word # <<>>
         THEN KeywordWalk(Tail(name), Append(words, ToLowercase(current_word)), <<c>>)
         ELSE KeywordWalk(Tail(name), words, Append(current_word, c))

\* extract_keywords: the filter closure, w.len() >= 3 && !stop_words.contains(w)
KeepWord(w) == ByteLen(w) >= 3 /\ w \notin Range(STOP_WORDS)

\* extract_keywords
ExtractKeywords(name) == SelectSeq(KeywordWalk(name, <<>>, <<>>), KeepWord)

(***************************************************************************)
(* split_args and parse_command_string                                     *)
(***************************************************************************)
RECURSIVE SplitArgsWalk(_, _, _, _)
\* split_args: the loop over input.chars() and the push after it
SplitArgsWalk(input, out, current_arg, in_quote) ==
    IF input = <<>>
    THEN IF current_arg # <<>> THEN Append(out, current_arg) ELSE out
    ELSE LET c == Head(input) IN
         IF c = "\""
         THEN SplitArgsWalk(Tail(input), out, current_arg, ~in_quote)
         ELSE IF IsWhitespace(c) /\ ~in_quote
         THEN IF current_arg # <<>>
              THEN SplitArgsWalk(Tail(input), Append(out, current_arg), <<>>, in_quote)
              ELSE SplitArgsWalk(Tail(input), out, current_arg, in_quote)
         ELSE SplitArgsWalk(Tail(input), out, Append(current_arg, c), in_quote)

\* SplitArgs with the quotes removed but not tracked: every whitespace splits
SplitArgsIgnoreQuotes(input) ==
    SplitArgsWalk(SelectSeq(input, LAMBDA c : c # "\""), <<>>, <<>>, FALSE)

\* split_args
SplitArgs(input) == SplitArgsWalk(input, <<>>, <<>>, FALSE)

RECURSIVE TrimStart(_)
\* str::trim_start
TrimStart(s) ==
    IF s # <<>> /\ IsWhitespace(Head(s)) THEN TrimStart(Tail(s)) ELSE s

RECURSIVE TrimEnd(_)
\* str::trim_end
TrimEnd(s) ==
    IF s # <<>> /\ IsWhitespace(s[Len(s)])
    THEN TrimEnd(SubSeq(s, 1, Len(s) - 1))
    ELSE s

\* str::trim
Trim(s) == TrimEnd(TrimStart(s))

\* ParseCommandString dropping the whitespace that follows the closing quote
ParseCommandStringTrimmedTail(raw) ==
    LET input == Trim(raw)
        end_quote == FindAny(Tail(input), {"\""})
        real_end == end_quote + 1
        space == FindAny(input, {" "})
    IN  IF StartsWith(input, <<"\"">>) /\ end_quote # 0
        THEN [exe |-> SubSeq(input, 2, real_end - 1),
              rest |-> TrimStart(SubSeq(input, real_end + 1, Len(input)))]
        ELSE IF space # 0
        THEN [exe |-> SubSeq(input, 1, space - 1),
              rest |-> SubSeq(input, space + 1, Len(input))]
        ELSE [exe |-> input, rest |-> <<>>]

\* parse_command_string: the pair (executable, argument tail)
ParseCommandString(raw) ==
    LET input == Trim(raw)
        end_quote == FindAny(Tail(input), {"\""})     \* 1-based in input[1..]
        real_end == end_quote + 1                     \* 1-based in input
        space == FindAny(input, {" "})
    IN  IF StartsWith(input, <<"\"">>) /\ end_quote # 0
        THEN [exe |-> SubSeq(input, 2, real_end - 1),
              rest |-> SubSeq(input, real_end + 1, Len(input))]
        ELSE IF space # 0
        THEN [exe |-> SubSeq(input, 1, space - 1),
              rest |-> SubSeq(input, space + 1, Len(input))]
        ELSE [exe |-> input, rest |-> <<>>]

(***************************************************************************)
(* find_uninstall_command (target_os = "windows")                          *)
(*                                                                         *)
(* The registry is the sequence of the subkeys that open, in the order of *)
(* the three nested loops (hive, path, enum_keys); an entry holds the     *)
(* three values the code reads, each an Option.                           *)
(***************************************************************************)
\* find_uninstall_command: display_name_lower
DisplayNameLower(entry) ==
    ToLowercase(IF IsSome(entry.DisplayName) THEN entry.DisplayName.val ELSE <<>>)

\* find_uninstall_command: match_score
MatchScore(kws, entry) ==
    Len(SelectSeq(kws, LAMBDA kw : Contains(DisplayNameLower(entry), kw)))

\* MinRequired never asking for more keywords than there are
MinRequiredAtMostLen(kws) == IF Len(kws) <= 1 THEN Len(kws) ELSE 2

\* find_uninstall_command: min_required
MinRequired(kws) == IF Len(kws) = 1 THEN 1 ELSE 2

\* find_uninstall_command: match_score >= min_required
Qualifies(kws, entry) == MatchScore(kws, entry) >= MinRequired(kws)

\* IsBetter with >= for >: a later entry of equal score replaces the best
IsBetterOrEqual(best, score) == IF IsSome(best) THEN score >= best.val.score ELSE TRUE

\* find_uninstall_command: is_better
IsBetter(best, score) == IF IsSome(best) THEN score > best.val.score ELSE TRUE

\* find_uninstall_command: the body of the innermost loop, the new best_match
ScanEntry(best, kws, entry) ==
    IF Qualifies(kws, entry) /\ IsBetter(best, MatchScore(kws, entry))
    THEN IF IsSome(entry.QuietUninstallString)
         THEN Some([cmd |-> entry.QuietUninstallString.val,
                    score |-> MatchScore(kws, entry)])
         ELSE IF IsSome(entry.UninstallString)
         THEN Some([cmd |-> entry.UninstallString.val,
                    score |-> MatchScore(kws, entry)])
         ELSE best
    ELSE best

RECURSIVE ScanFrom(_, _, _, _)
\* find_uninstall_command: the scan of entries i.. of the registry
ScanFrom(best, kws, reg, i) ==
    IF i > Len(reg) THEN best
    ELSE ScanFrom(ScanEntry(best, kws, reg[i]), kws, reg, i + 1)

\* find_uninstall_command: best_match.map(|(cmd, _)| cmd)
FindUninstallCommand(name, reg) ==
    LET best == ScanFrom(None, ExtractKeywords(name), reg, 1)
    IN  IF IsSome(best) THEN Some(best.val.cmd) ELSE None

(***************************************************************************)
(* process_task: the pure parts                                            *)
(***************************************************************************)
MSIEXEC == <<"m","s","i","e","x","e","c">>

DOT_MSI == <<".","m","s","i">>

DOT_EXE == <<".","e","x","e">>

UNINSTALL == "uninstall"

\* process_task: file_path = tmp_dir.path().join(file_name); "<tmp>" stands
\* for the path of the scratch directory tempdir() made for this call.  That
\* path is taken to be valid UTF-8, so that file_path.to_str().unwrap() of
\* lines 310 and 356 yields it.
FilePath(pf, fname) ==
    <<"<tmp>">> \o (IF pf = "windows" THEN <<"\\">> ELSE <<"/">>) \o fname

\* IsMsi comparing the raw file name: no to_lowercase
IsMsiCaseSensitive(fname) == EndsWith(fname, DOT_MSI)

\* process_task: file_name.to_lowercase().ends_with(".msi")
IsMsi(fname) == EndsWith(ToLowercase(fname), DOT_MSI)

\* ResolveUninstall falling back to the downloaded artifact when the lookup
\* gives nothing, instead of returning the Err of lines 340 and 345
ResolveUninstallFallback(pf, task, reg) ==
    LET found == IF pf = "windows"
                 THEN FindUninstallCommand(task.software_name, reg) ELSE None
    IN  IF IsSome(found)
        THEN [ok |-> TRUE, resolver |-> TRUE,
              parsed |-> Some(ParseCommandString(found.val)),
              command_path |-> ParseCommandString(found.val).exe,
              args |-> SplitArgs(ParseCommandString(found.val).rest)
                       \o SplitArgs(task.silent_args)]
        ELSE [ok |-> TRUE, resolver |-> (pf = "windows"), parsed |-> None,
              command_path |-> FilePath(pf, LocalFileName(pf, task.download_url)),
              args |-> SplitArgs(task.silent_args)]

\* ResolveUninstall putting the caller's silent_args before the registry tail
ResolveUninstallArgsFirst(pf, task, reg) ==
    IF pf = "windows"
    THEN LET found == FindUninstallCommand(task.software_name, reg) IN
         IF IsSome(found)
         THEN LET p == ParseCommandString(found.val) IN
              [ok |-> TRUE, resolver |-> TRUE, parsed |-> Some(p),
               command_path |-> p.exe,
               args |-> SplitArgs(task.silent_args) \o SplitArgs(p.rest)]
         ELSE [ok |-> FALSE, resolver |-> TRUE, parsed |-> None, fail |-> "resolve"]
    ELSE [ok |-> FALSE, resolver |-> FALSE, parsed |-> None, fail |-> "unsupported"]

\* process_task: the registry branch of an uninstall, lines 313-346.  The
\* resolver exists on windows only; elsewhere the branch is the Err of line 345.
ResolveUninstall(pf, task, reg) ==
    IF pf = "windows"
    THEN LET found == FindUninstallCommand(task.software_name, reg) IN
         IF IsSome(found)
         THEN LET p == ParseCommandString(found.val) IN
              [ok |-> TRUE, resolver |-> TRUE, parsed |-> Some(p),
               command_path |-> p.exe,
               args |-> SplitArgs(p.rest)
                        \o (IF task.silent_args # <<>>
                            THEN SplitArgs(task.silent_args) ELSE <<>>)]
         ELSE [ok |-> FALSE, resolver |-> TRUE, parsed |-> None, fail |-> "resolve"]
    ELSE [ok |-> FALSE, resolver |-> FALSE, parsed |-> None, fail |-> "unsupported"]

\* process_task: step 2, lines 301-360: the command to run, or the Err returned
BuildCommand(pf, task, fname, reg) ==
    IF task.task_type = UNINSTALL
    THEN IF IsMsi(fname)
         THEN [ok |-> TRUE, resolver |-> FALSE, parsed |-> None,
               command_path |-> MSIEXEC,
               args |-> << <<"/","x">>, FilePath(pf, fname), <<"/","q","n">> >>]
         ELSE ResolveUninstall(pf, task, reg)
    ELSE IF IsMsi(fname)
         THEN [ok |-> TRUE, resolver |-> FALSE, parsed |-> None,
               command_path |-> MSIEXEC,
               args |-> << <<"/","i">>, FilePath(pf, fname) >>
                        \o SplitArgs(task.silent_args)]
         ELSE [ok |-> TRUE, resolver |-> FALSE, parsed |-> None,
               command_path |-> FilePath(pf, fname),
               args |-> SplitArgs(task.silent_args)]

\* ExitAck reporting success whatever the exit status
ExitAckAlwaysSuccess(code) ==
    [status |-> "success", text |-> "Installed successfully",
     shows_code |-> FALSE, code |-> None]

\* process_task: the Ok arm of the match on status, lines 367-375.  code is
\* exit_status.code(): None when the child was ended by a signal.
ExitAck(code) ==
    IF code = Some(0)
    THEN [status |-> "success", text |-> "Installed successfully",
          shows_code |-> FALSE, code |-> None]
    ELSE [status |-> "failed", text |-> "Exit Code: ",
          shows_code |-> TRUE, code |-> code]

\* SpawnErrAck comparing the extension without to_lowercase()
SpawnErrAckCaseSensitive(pf, fname) ==
    IF pf = "linux" /\ EndsWith(fname, DOT_EXE)
    THEN Some([status |-> "success", text |-> "Simulated success on Linux",
               shows_code |-> FALSE, code |-> None])
    ELSE None

\* process_task: the Err arm of the match on status, lines 376-383
SpawnErrAck(pf, fname) ==
    IF pf = "linux" /\ EndsWith(ToLowercase(fname), DOT_EXE)
    THEN Some([status |-> "success", text |-> "Simulated success on Linux",
               shows_code |-> FALSE, code |-> None])
    ELSE None

(***************************************************************************)
(* The requests main and process_task hand to the HTTP client              *)
(***************************************************************************)
\* main: lines 91-98, the heartbeat request
HeartbeatRequest(token) ==
    [kind |-> "heartbeat", to |-> "backend/heartbeat", agent_token |-> TRUE,
     machine_token |-> token, body |-> [sys_info |-> TRUE]]

\* AckRequest without lines 400-402: the machine-token header is never set
AckRequestNoToken(task, a, token) ==
    [kind |-> "ack", to |-> "backend/ack", agent_token |-> TRUE,
     machine_token |-> None,
     body |-> [task_id |-> task.id, status |-> a.status,
               text |-> a.text, shows_code |-> a.shows_code, code |-> a.code]]

\* process_task: lines 387-402, the acknowledgment request
AckRequest(task, a, token) ==
    [kind |-> "ack", to |-> "backend/ack", agent_token |-> TRUE,
     machine_token |-> token,
     body |-> [task_id |-> task.id, status |-> a.status,
               text |-> a.text, shows_code |-> a.shows_code, code |-> a.code]]

\* DownloadRequest built like the heartbeat: the agent-token header is set
DownloadRequestWithAgentToken(task) ==
    [kind |-> "download", to |-> task.download_url, agent_token |-> TRUE,
     machine_token |-> None, body |-> [sys_info |-> FALSE]]

\* process_task: line 280, reqwest::get(&task.download_url)
DownloadRequest(task) ==
    [kind |-> "download", to |-> task.download_url, agent_token |-> FALSE,
     machine_token |-> None, body |-> [sys_info |-> FALSE]]

NoRequest ==
    [kind |-> "none", to |-> "", agent_token |-> FALSE,
     machine_token |-> None, body |-> [sys_info |-> FALSE]]

\* NextToken assigning hb_resp.machine_token unconditionally
NextTokenOverwrite(current, received) == received

\* main: lines 107-112, machine_token after a decoded response
NextToken(current, received) == IF IsSome(received) THEN received ELSE current

\* main: line 118, the machine_token argument of process_task
TokenArgument(current) == current

\* AfterTask leaving the for loop on the first Err
AfterTaskBreak(res, i, n) ==
    IF res = "err" THEN [pc |-> "sleep", idx |-> 0]
    ELSE IF i < n THEN [pc |-> "task_start", idx |-> i + 1]
    ELSE [pc |-> "sleep", idx |-> 0]

\* main: lines 116-121 and 133: where the loop goes once process_task returned
AfterTask(res, i, n) ==
    IF i < n THEN [pc |-> "task_start", idx |-> i + 1]
    ELSE [pc |-> "sleep", idx |-> 0]

(***************************************************************************)
(* Bounds and the inputs of the poll loop                                  *)
(***************************************************************************)
MaxBatch == 2       \* tasks in one poll response

MaxExit == 1        \* exit codes 0..MaxExit

Platforms == {"windows", "linux"}

Tokens == {"t1", "t2"}

URL_MSI == <<"h","/","p",".","M","S","I","?","k","=","1">>

URL_EXE == <<"h","/",".",".","/","s",".","e","x","e">>

NAME_TOOL == <<"A","b","c","T","o","o","l">>

NAME_GONE == <<"Z","e","d">>

ARGS_S == <<"/","S"," ","\"","a"," ","b","\"">>

CMD_TOOL == <<"\"","C",":","\\","P"," ","F","\\","u",".","e","x","e","\""," ","/","q">>

\* the registry the poll loop runs against: one product, "Abc Tool"
LoopRegistry ==
    << [DisplayName |-> Some(<<"A","b","c"," ","T","o","o","l">>),
        QuietUninstallString |-> None,
        UninstallString |-> Some(CMD_TOOL)] >>

MkTask(id, type, name, url, sargs) ==
    [id |-> id, task_type |-> type, software_name |-> name,
     download_url |-> url, silent_args |-> sargs]

\* the work orders a poll response is drawn from
TaskPool ==
    { MkTask(1, "install",   NAME_TOOL, URL_MSI, ARGS_S),
      MkTask(2, "uninstall", NAME_TOOL, URL_MSI, ARGS_S),
      MkTask(3, "install",   NAME_TOOL, URL_EXE, <<>>),
      MkTask(4, "uninstall", NAME_TOOL, URL_EXE, ARGS_S),
      MkTask(5, "uninstall", NAME_GONE, URL_EXE, <<>>) }

SeqsUpTo(S, n) == UNION {[1..k -> S] : k \in 0..n}

Batches == SeqsUpTo(TaskPool, MaxBatch)

\* exit_status.code(): a code, or None for a child ended by a signal (unix)
ExitStatuses(pf) ==
    {Some(c) : c \in 0..MaxExit} \cup (IF pf = "linux" THEN {None} ELSE {})

\* the ways lines 263 and 280-292 return an Err
DownloadFailures(pf) ==
    {"transport", "status", "write"} \cup (IF pf = "linux" THEN {"perms"} ELSE {})

NoTstat ==
    [tmpdir |-> FALSE, downloaded |-> FALSE, resolver |-> FALSE,
     spawns |-> 0, spawn_err |-> FALSE, exits |-> 0, acks |-> 0,
     fail |-> "none", exit |-> None]

(***************************************************************************)
(* derive_pseudo_mac and get_system_info                                   *)
(*                                                                         *)
(* A byte is a number in 0..255.  The u64 that DefaultHasher gives for    *)
(* the hostname is carried as its eight bytes in big-endian order, the    *)
(* value of hash.to_be_bytes() (line 52).                                 *)
(***************************************************************************)
HexDigits == <<"0","1","2","3","4","5","6","7","8","9","a","b","c","d","e","f">>

\* format!("{:02x}", b)
HexByte(b) == <<HexDigits[(b \div 16) + 1], HexDigits[(b % 16) + 1]>>

\* b | 0x02
BitOr02(b) == IF (b \div 2) % 2 = 1 THEN b ELSE b + 2

\* b & 0xFE
BitAndFE(b) == b - (b % 2)

\* derive_pseudo_mac: lines 58-65, the six bytes as colon-separated hex pairs
FormatMac(mac_bytes) ==
    HexByte(mac_bytes[1]) \o <<":">> \o HexByte(mac_bytes[2]) \o <<":">> \o
    HexByte(mac_bytes[3]) \o <<":">> \o HexByte(mac_bytes[4]) \o <<":">> \o
    HexByte(mac_bytes[5]) \o <<":">> \o HexByte(mac_bytes[6])

\* DerivePseudoMac copying hash_bytes[0..6], the upper 48 bits
DerivePseudoMacUpper(hash_bytes) ==
    LET mac_bytes == SubSeq(hash_bytes, 1, 6)
    IN  FormatMac([mac_bytes EXCEPT ![1] = BitAndFE(BitOr02(@))])

\* derive_pseudo_mac: lines 52-65, from the bytes of the hostname's hash
DerivePseudoMac(hash_bytes) ==
    LET mac_bytes == SubSeq(hash_bytes, 3, 8)
    IN  FormatMac([mac_bytes EXCEPT ![1] = BitAndFE(BitOr02(@))])

\* get_system_info: lines 137-154; h.mac is what get_mac_address() returns.
\* os_info and ip_address (lines 151-152) are left out.
GetSystemInfo(h) ==
    Some([hostname |-> h.hostname,
          mac_address |-> IF h.mac.kind = "ok_some"
                          THEN h.mac.text
                          ELSE DerivePseudoMac(h.hash)])

(***************************************************************************)
(* The record of the poll cycles                                           *)
(*                                                                         *)
(* cyc.kind is "pending" from the heartbeat request to its outcome, then  *)
(* "idle" for a decoded response without tasks and "other" for a failed   *)
(* heartbeat or a response with tasks.  cyc.fx holds the local effects of *)
(* the cycle, cyc.start_tok the session token the cycle began with.       *)
(* cyc.prev describes the cycle before, as long as that cycle was idle    *)
(* and the current one may still be.                                      *)
(***************************************************************************)
NoPrev == [idle |-> FALSE, tok |-> None, hb |-> None, fx |-> {}]

NoCycle == [kind |-> "none", fx |-> {}, start_tok |-> None, prev |-> NoPrev]

\* main: line 87, an iteration of the loop begins
CycleBegin(c, tok) == [c EXCEPT !.kind = "pending", !.fx = {}, !.start_tok = tok]

\* main: lines 114-116 with hb_resp.tasks empty
CycleIdle(c) == [c EXCEPT !.kind = "idle"]

\* main: lines 116-121 with tasks to run, or lines 124-130
CycleOther(c) == [c EXCEPT !.kind = "other", !.start_tok = None, !.prev = NoPrev]

\* process_task has made a directory or a file, started a child or sent an ack
CycleEffect(c, e) == [c EXCEPT !.fx = @ \cup {e}]

\* main: line 133, the iteration ends
CycleEnd(c, hb) ==
    [kind |-> "none", fx |-> {}, start_tok |-> None,
     prev |-> IF c.kind = "idle"
              THEN [idle |-> TRUE, tok |-> c.start_tok, hb |-> hb, fx |-> c.fx]
              ELSE NoPrev]

\* the machine of the poll loop: no network adapter answers get_mac_address()
HW_MAC == <<"0","0",":","1","A",":","2","B",":","3","C",":","4","D",":","5","E">>

MacResults ==
    {[kind |-> "ok_some", text |-> HW_MAC], [kind |-> "ok_none", text |-> <<>>],
     [kind |-> "err", text |-> <<>>]}

HOST_LOOP ==
    [hostname |-> <<"p","c","1">>,
     hash |-> <<18, 52, 86, 120, 154, 188, 222, 240>>,
     mac |-> [kind |-> "ok_none", text |-> <<>>]]

(***************************************************************************)
(* Init: the state when main starts                                        *)
(***************************************************************************)
LoopStart ==
    /\ machine_token = None
    /\ lastReq = NoRequest
    /\ hb_token = None
    /\ batch = <<>>
    /\ idx = 0
    /\ ptoken = None
    /\ file_name = <<>>
    /\ command_path = <<>>
    /\ args = <<>>
    /\ parsed = None
    /\ children = {}
    /\ ack = None
    /\ result = "none"
    /\ tstat = NoTstat
    /\ sys_info = None
    /\ cyc = NoCycle

FindStart ==
    /\ software_name = <<>>
    /\ keywords = <<>>
    /\ ri = 0
    /\ best_match = None
    /\ match_score = 0
    /\ qualified = FALSE

Init ==
    /\ platform \in Platforms
    /\ registry = IF platform = "windows" THEN LoopRegistry ELSE <<>>
    /\ host = HOST_LOOP
    /\ pc = "load_config"
    /\ LoopStart
    /\ FindStart

task == batch[idx]

(***************************************************************************)
(* main                                                                    *)
(***************************************************************************)
\* main: lines 76-85.  build()? and try_deserialize()? return from main.
LoadConfig ==
    /\ pc = "load_config"
    /\ pc' \in {"hb_send", "exited"}
    /\ UNCHANGED <<platform, registry, host, machine_token, lastReq, hb_token, batch, idx, ptoken,
                   file_name, command_path, args, children, ack, result, tstat>>
    /\ UNCHANGED findVars
    /\ UNCHANGED <<parsed, sys_info, cyc>>

\* main: lines 88-100, the heartbeat request is built and sent
SendHeartbeat ==
    /\ pc = "hb_send"
    /\ lastReq' = HeartbeatRequest(machine_token)
    /\ pc' = "hb_wait"
    /\ UNCHANGED <<platform, registry, host, machine_token, hb_token, batch, idx, ptoken,
                   file_name, command_path, args, children, ack, result, tstat>>
    /\ UNCHANGED findVars
    /\ sys_info' = GetSystemInfo(host)
    /\ cyc' = CycleBegin(cyc, machine_token)
    /\ UNCHANGED parsed

\* main: lines 124-130: send() failed, the status is no success, or the body
\* does not decode as a HeartbeatResponse
HeartbeatFailed ==
    /\ pc = "hb_wait"
    /\ \E why \in {"transport", "status", "decode"} : pc' = "sleep"
    /\ UNCHANGED <<platform, registry, host, machine_token, lastReq, hb_token, batch, idx, ptoken,
                   file_name, command_path, args, children, ack, result, tstat>>
    /\ UNCHANGED findVars
    /\ cyc' = CycleOther(cyc)
    /\ UNCHANGED <<parsed, sys_info>>

\* main: lines 105-122 up to the first process_task call
HeartbeatDecoded ==
    /\ pc = "hb_wait"
    /\ \E received \in {None} \cup {Some(t) : t \in Tokens}, tasks \in Batches :
          /\ machine_token' = NextToken(machine_token, received)
          /\ hb_token' = received
          /\ batch' = tasks
          /\ IF tasks # <<>>
             THEN pc' = "task_start" /\ idx' = 1
             ELSE pc' = "sleep" /\ idx' = 0
    /\ UNCHANGED <<platform, registry, host, lastReq, ptoken,
                   file_name, command_path, args, children, ack, result, tstat>>
    /\ UNCHANGED findVars
    /\ cyc' = IF batch' = <<>> THEN CycleIdle(cyc) ELSE CycleOther(cyc)
    /\ UNCHANGED <<parsed, sys_info>>

\* main: line 133, then the next iteration of the loop
Sleep ==
    /\ pc = "sleep"
    /\ pc' = "hb_send"
    /\ hb_token' = None
    /\ batch' = <<>>
    /\ idx' = 0
    /\ UNCHANGED <<platform, registry, host, machine_token, lastReq, ptoken,
                   file_name, command_path, args, children, ack, result, tstat>>
    /\ UNCHANGED findVars
    /\ cyc' = CycleEnd(cyc, hb_token)
    /\ UNCHANGED <<parsed, sys_info>>

(***************************************************************************)
(* process_task                                                            *)
(***************************************************************************)
\* main line 118 calls process_task; lines 259-277: the scratch directory is
\* made (tempdir()? may return Err) and the local file name derived
StartTask ==
    /\ pc = "task_start"
    /\ ptoken' = TokenArgument(machine_token)
    /\ \/ /\ tstat' = [NoTstat EXCEPT !.tmpdir = TRUE]
          /\ file_name' = LocalFileName(platform, task.download_url)
          /\ result' = "none"
          /\ pc' = "download"
       \/ /\ tstat' = [NoTstat EXCEPT !.fail = "tmpdir"]
          /\ file_name' = <<>>
          /\ result' = "err"
          /\ pc' = "task_return"
    /\ command_path' = <<>>
    /\ args' = <<>>
    /\ ack' = None
    /\ UNCHANGED <<platform, registry, host, machine_token, lastReq, hb_token, batch, idx, children>>
    /\ UNCHANGED findVars
    /\ cyc' = IF tstat'.tmpdir THEN CycleEffect(cyc, "tmpdir") ELSE cyc
    /\ parsed' = None
    /\ UNCHANGED sys_info

\* process_task: lines 279-297, the GET of the artifact and the file write
Download ==
    /\ pc = "download"
    /\ lastReq' = DownloadRequest(task)
    /\ \/ /\ tstat' = [tstat EXCEPT !.downloaded = TRUE]
          /\ pc' = "build"
          /\ UNCHANGED result
       \/ \E why \in DownloadFailures(platform) :
             /\ tstat' = [tstat EXCEPT !.fail = why]
             /\ result' = "err"
             /\ pc' = "task_return"
    /\ UNCHANGED <<platform, registry, host, machine_token, hb_token, batch, idx, ptoken,
                   file_name, command_path, args, children, ack>>
    /\ UNCHANGED findVars
    /\ cyc' = IF tstat'.downloaded THEN CycleEffect(cyc, "download") ELSE cyc
    /\ UNCHANGED <<parsed, sys_info>>

\* process_task: lines 301-360, the command is built or the task fails
Build ==
    /\ pc = "build"
    /\ LET b == BuildCommand(platform, task, file_name, registry) IN
          IF b.ok
          THEN /\ command_path' = b.command_path
               /\ args' = b.args
               /\ tstat' = [tstat EXCEPT !.resolver = b.resolver]
               /\ pc' = "spawn"
               /\ UNCHANGED result
          ELSE /\ tstat' = [tstat EXCEPT !.resolver = b.resolver, !.fail = b.fail]
               /\ result' = "err"
               /\ pc' = "task_return"
               /\ UNCHANGED <<command_path, args>>
    /\ UNCHANGED <<platform, registry, host, machine_token, lastReq, hb_token, batch, idx, ptoken,
                   file_name, children, ack>>
    /\ UNCHANGED findVars
    /\ parsed' = BuildCommand(platform, task, file_name, registry).parsed
    /\ UNCHANGED <<sys_info, cyc>>

\* AfterSpawn for Command::spawn(): the pipeline goes on while the child runs
AfterSpawnDetached == "task_return"

\* where process_task is once Command::status() has started the child:
\* status() returns only when the child has exited
AfterSpawn == "wait"

\* process_task: lines 362-364, the child starts; lines 376-383 when it does not
Spawn ==
    /\ pc = "spawn"
    /\ \/ /\ children' = children \cup {idx}
          /\ tstat' = [tstat EXCEPT !.spawns = @ + 1]
          /\ pc' = AfterSpawn
          /\ UNCHANGED <<ack, result>>
       \/ /\ UNCHANGED children
          /\ LET a == SpawnErrAck(platform, file_name) IN
                IF IsSome(a)
                THEN /\ ack' = a
                     /\ tstat' = [tstat EXCEPT !.spawn_err = TRUE]
                     /\ pc' = "ack"
                     /\ UNCHANGED result
                ELSE /\ tstat' = [tstat EXCEPT !.spawn_err = TRUE, !.fail = "spawn"]
                     /\ result' = "err"
                     /\ pc' = "task_return"
                     /\ UNCHANGED ack
    /\ UNCHANGED <<platform, registry, host, machine_token, lastReq, hb_token, batch, idx, ptoken,
                   file_name, command_path, args>>
    /\ UNCHANGED findVars
    /\ cyc' = IF idx \in children' THEN CycleEffect(cyc, "spawn") ELSE cyc
    /\ UNCHANGED <<parsed, sys_info>>

\* the child of the current task exits; status() returns its ExitStatus and
\* lines 366-375 map it
ChildExit ==
    /\ pc = "wait"
    /\ idx \in children
    /\ \E code \in ExitStatuses(platform) :
          /\ children' = children \ {idx}
          /\ tstat' = [tstat EXCEPT !.exits = @ + 1, !.exit = code]
          /\ ack' = Some(ExitAck(code))
          /\ pc' = "ack"
    /\ UNCHANGED <<platform, registry, host, machine_token, lastReq, hb_token, batch, idx, ptoken,
                   file_name, command_path, args, result>>
    /\ UNCHANGED findVars
    /\ UNCHANGED <<parsed, sys_info, cyc>>

\* process_task: lines 386-406; the outcome of send() is dropped
SendAck ==
    /\ pc = "ack"
    /\ lastReq' = AckRequest(task, ack.val, ptoken)
    /\ tstat' = [tstat EXCEPT !.acks = @ + 1]
    /\ \E delivered \in BOOLEAN : result' = "ok"
    /\ pc' = "task_return"
    /\ UNCHANGED <<platform, registry, host, machine_token, hb_token, batch, idx, ptoken,
                   file_name, command_path, args, children, ack>>
    /\ UNCHANGED findVars
    /\ sys_info' = GetSystemInfo(host)
    /\ cyc' = CycleEffect(cyc, "ack")
    /\ UNCHANGED parsed

\* main: lines 118-121: process_task has returned, an Err is logged, and the
\* for loop takes the next task or ends
TaskReturn ==
    /\ pc = "task_return"
    /\ pc' = AfterTask(result, idx, Len(batch)).pc
    /\ idx' = AfterTask(result, idx, Len(batch)).idx
    /\ ptoken' = None
    /\ file_name' = <<>>
    /\ command_path' = <<>>
    /\ args' = <<>>
    /\ ack' = None
    /\ result' = "none"
    /\ tstat' = NoTstat
    /\ UNCHANGED <<platform, registry, host, machine_token, lastReq, hb_token, batch, children>>
    /\ UNCHANGED findVars
    /\ parsed' = None
    /\ UNCHANGED <<sys_info, cyc>>

Next ==
    \/ LoadConfig
    \/ SendHeartbeat
    \/ HeartbeatFailed
    \/ HeartbeatDecoded
    \/ Sleep
    \/ StartTask
    \/ Download
    \/ Build
    \/ Spawn
    \/ ChildExit
    \/ SendAck
    \/ TaskReturn

Spec == Init /\ [][Next]_vars

(***************************************************************************)
(* The file name derivation over all short download URLs                   *)
(*                                                                         *)
(* process_task is entered with one task whose download_url ranges over   *)
(* every string of at most MaxUrlLen characters of UrlChars, and over the *)
(* URLs named below.                                                       *)
(***************************************************************************)
MaxUrlLen == 5      \* characters of an enumerated download_url

UrlChars == {"/", "?", ".", "e", "\\", ":"}

URL_EVIL == <<"h","t","t","p","s",":","/","/","x","/",".",".","/",".",".","/","e","v","i","l",".","e","x","e","?","t","o","k","e","n","=","1","&","x","=","2">>

EVIL_EXE == <<"e","v","i","l",".","e","x","e">>

URL_QUERY_PATH == <<"h","/","a",".","e","x","e","?","n","e","x","t","=","/","e","t","c","/","p","w">>

NamedUrls == {URL_EVIL, URL_QUERY_PATH, URL_MSI, URL_EXE}

Urls == SeqsUpTo(UrlChars, MaxUrlLen) \cup NamedUrls

InitName ==
    /\ platform \in Platforms
    /\ registry = <<>>
    /\ host = HOST_LOOP
    /\ pc = "task_start"
    /\ machine_token = None
    /\ lastReq = HeartbeatRequest(None)
    /\ hb_token = None
    /\ \E url \in Urls :
          batch = << MkTask(1, "install", NAME_TOOL, url, <<>>) >>
    /\ idx = 1
    /\ ptoken = None
    /\ file_name = <<>>
    /\ command_path = <<>>
    /\ args = <<>>
    /\ parsed = None
    /\ children = {}
    /\ ack = None
    /\ result = "none"
    /\ tstat = NoTstat
    /\ sys_info = None
    /\ cyc = NoCycle
    /\ FindStart

NextName == StartTask

SpecName == InitName /\ [][NextName]_vars

(***************************************************************************)
(* extract_keywords over all short names                                   *)
(***************************************************************************)
MaxNameLen == 4     \* characters of an enumerated software_name

NameChars == {"w", "i", "n", "W", "-", "<e9>"}

NAME_BRAVE == <<"B","r","a","v","e","B","r","o","w","s","e","r","S","t","a","n","d","a","l","o","n","e","S","i","l","e","n","t","N","i","g","h","t","l","y","S","e","t","u","p">>

KW_BRAVE == <<<<"b","r","a","v","e">>, <<"b","r","o","w","s","e","r">>, <<"n","i","g","h","t","l","y">>>>

NAME_ZOOM == <<"Z","o","o","m">>

KeywordNames == SeqsUpTo(NameChars, MaxNameLen) \cup {NAME_BRAVE, NAME_ZOOM}

\* find_uninstall_command is entered: line 166
FindBegin ==
    /\ pc = "find_start"
    /\ keywords' = ExtractKeywords(software_name)
    /\ ri' = 1
    /\ best_match' = None
    /\ pc' = "find_scan"
    /\ UNCHANGED <<platform, registry, host, software_name, match_score, qualified>>
    /\ UNCHANGED <<machine_token, lastReq, hb_token, batch, idx, ptoken, file_name,
                   command_path, args, parsed, children, ack, result, tstat,
                   sys_info, cyc>>

\* find_uninstall_command: one pass of the innermost loop, lines 176-206
FindScan ==
    /\ pc = "find_scan"
    /\ ri <= Len(registry)
    /\ match_score' = MatchScore(keywords, registry[ri])
    /\ qualified' = Qualifies(keywords, registry[ri])
    /\ best_match' = ScanEntry(best_match, keywords, registry[ri])
    /\ ri' = ri + 1
    /\ UNCHANGED <<platform, registry, host, pc, software_name, keywords>>
    /\ UNCHANGED <<machine_token, lastReq, hb_token, batch, idx, ptoken, file_name,
                   command_path, args, parsed, children, ack, result, tstat,
                   sys_info, cyc>>

\* find_uninstall_command: line 212, the loops are over
FindReturn ==
    /\ pc = "find_scan"
    /\ ri > Len(registry)
    /\ pc' = "find_done"
    /\ UNCHANGED <<platform, registry, host>>
    /\ UNCHANGED findVars
    /\ UNCHANGED <<machine_token, lastReq, hb_token, batch, idx, ptoken, file_name,
                   command_path, args, parsed, children, ack, result, tstat,
                   sys_info, cyc>>

InitKeywords ==
    /\ platform = "windows"
    /\ registry = <<>>
    /\ host = HOST_LOOP
    /\ pc = "find_start"
    /\ LoopStart
    /\ software_name \in KeywordNames
    /\ keywords = <<>>
    /\ ri = 0
    /\ best_match = None
    /\ match_score = 0
    /\ qualified = FALSE

NextKeywords == FindBegin \/ FindReturn

SpecKeywords == InitKeywords /\ [][NextKeywords]_vars

(***************************************************************************)
(* find_uninstall_command over small registries                            *)
(***************************************************************************)
MaxNameWords == 3   \* words of an enumerated software_name

MaxEntries == 2     \* entries of an enumerated registry

WordPool == { <<"a","b","c">>, <<"x","y","z">>, <<"s","e","t","u","p">>, <<"a","b">> }

RECURSIVE JoinWords(_)
\* the words of ws, joined by dashes
JoinWords(ws) ==
    IF ws = <<>> THEN <<>>
    ELSE IF Len(ws) = 1 THEN ws[1]
    ELSE ws[1] \o <<"-">> \o JoinWords(Tail(ws))

FindNames ==
    {JoinWords(ws) : ws \in SeqsUpTo(WordPool, MaxNameWords)}
        \cup {NAME_BRAVE, NAME_ZOOM}

MkEntry(dn, quiet, unins) ==
    [DisplayName |-> dn, QuietUninstallString |-> quiet, UninstallString |-> unins]

EntryPool ==
    { MkEntry(Some(<<"A","b","c">>), None, Some(<<"u","1"," ","/","a">>)),
      MkEntry(Some(<<"A","b","c"," ","X","y","z">>), Some(<<"q","2"," ","/","q">>), Some(<<"u","2">>)),
      MkEntry(Some(<<"X","Y","Z"," ","A","B","C">>), None, Some(<<"u","3">>)),
      MkEntry(Some(<<"X","y","z"," ","A","b","c"," ","2">>), None, None),
      MkEntry(None, None, Some(<<"u","5">>)),
      MkEntry(Some(<<"B","r","a","v","e">>), None, Some(<<"u","6">>)),
      MkEntry(Some(<<"Z","o","o","m">>), None, Some(<<"u","7">>)) }

Registries == SeqsUpTo(EntryPool, MaxEntries)

InitFind ==
    /\ platform = "windows"
    /\ registry \in Registries
    /\ host = HOST_LOOP
    /\ pc = "find_start"
    /\ LoopStart
    /\ software_name \in FindNames
    /\ keywords = <<>>
    /\ ri = 0
    /\ best_match = None
    /\ match_score = 0
    /\ qualified = FALSE

NextFind == FindBegin \/ FindScan \/ FindReturn

SpecFind == InitFind /\ [][NextFind]_vars

(***************************************************************************)
(* Claims                                                                  *)
(***************************************************************************)

\* C1 (SpecName): for every download_url the file name process_task joins
\* onto the scratch directory is non-empty, holds no '/' and no '?', and is
\* neither "." nor ".."; for https://x/../../evil.exe?token=1&x=2 it is
\* evil.exe.
C1_BareFileName ==
    pc = "download" =>
        /\ file_name # <<>>
        /\ "/" \notin Range(file_name)
        /\ "?" \notin Range(file_name)
        /\ file_name \notin {<<".">>, <<".", ".">>}
        /\ task.download_url = URL_EVIL => file_name = EVIL_EXE

C1_Witness ==
    /\ pc = "download"
    /\ platform = "windows"
    /\ task.download_url = URL_EVIL
    /\ file_name = EVIL_EXE

\* C2 (Spec): every heartbeat and every acknowledgment is sent with the
\* machine-token header holding the token machine_token holds at that moment
\* (no header while it is None), and while no token was received no request
\* carries the header.
C2_TokenAttached ==
    /\ [](machine_token = None => lastReq.machine_token = None)
    /\ [][/\ (pc = "hb_send" /\ pc' = "hb_wait") =>
                /\ lastReq'.kind = "heartbeat"
                /\ lastReq'.machine_token = machine_token
          /\ (pc = "ack" /\ pc' = "task_return") =>
                /\ lastReq'.kind = "ack"
                /\ lastReq'.machine_token = machine_token]_vars

\* the acknowledgment of a task that came in the response that brought token t2
C2_Witness ==
    /\ pc = "task_return"
    /\ lastReq.kind = "ack"
    /\ hb_token = Some("t2")
    /\ lastReq.machine_token = Some("t2")

\* C3 (Spec): when process_task returns an Err the for loop goes on with the
\* next task of the batch, or, after the last one, to the sleep and from there
\* to the next heartbeat; main has returned only if no request was ever sent.
C3_ErrorsDoNotStopBatch ==
    /\ [](pc = "exited" => lastReq = NoRequest)
    /\ [][/\ (pc = "task_return" /\ result = "err" /\ idx < Len(batch)) =>
                (pc' = "task_start" /\ idx' = idx + 1 /\ batch' = batch)
          /\ (pc = "task_return" /\ result = "err" /\ idx = Len(batch)) =>
                pc' = "sleep"
          /\ pc = "sleep" => pc' = "hb_send"
          /\ pc = "hb_send" => (pc' = "hb_wait" /\ lastReq'.kind = "heartbeat")]_vars

C3_Witness ==
    /\ pc = "task_return"
    /\ result = "err"
    /\ tstat.fail = "status"
    /\ idx = 1
    /\ Len(batch) = 2

\* C4 (Spec): a child process runs only while process_task waits for it, so
\* at most one runs and it is the current task's; a task starts only after the
\* one before it has returned, in batch order; a heartbeat is sent only when no
\* task of the batch is in progress.
C4_Sequential ==
    /\ [](/\ Cardinality(children) <= 1
          /\ children \subseteq {idx}
          /\ pc # "wait" => children = {})
    /\ [][/\ (pc' = "task_start" /\ pc # "task_start") =>
                /\ pc \in {"hb_wait", "task_return"}
                /\ children = {}
                /\ idx' = idx + 1
                /\ pc = "task_return" => batch' = batch
          /\ (pc' = "hb_wait" /\ pc # "hb_wait") =>
                /\ pc = "hb_send"
                /\ children = {}
                /\ idx = 0]_vars

\* the child of the second task of a batch is running
C4_Witness ==
    /\ pc = "wait"
    /\ idx = 2
    /\ children = {2}

\* C5 (Spec): a task whose download failed, or whose uninstall command could
\* not be resolved (none found, or no resolver on the platform), spawns no
\* child and sends no acknowledgment, and process_task returns an Err; an
\* uninstall never runs the downloaded artifact.
C5_FailedTaskRunsNothing ==
    /\ tstat.fail \in {"transport", "status", "write", "perms", "resolve", "unsupported"} =>
          /\ tstat.spawns = 0
          /\ tstat.acks = 0
          /\ children = {}
          /\ pc = "task_return"
          /\ result = "err"
          /\ lastReq.kind = "download"
    /\ (pc \in {"spawn", "wait", "ack"} /\ task.task_type = UNINSTALL) =>
          command_path # FilePath(platform, file_name)
    /\ (tstat.spawns > 0 /\ task.task_type = UNINSTALL /\ command_path # MSIEXEC) =>
          /\ platform = "windows"
          /\ IsSome(FindUninstallCommand(task.software_name, registry))

\* an uninstall of a non-package artifact with no registry entry for it
C5_Witness ==
    /\ pc = "task_return"
    /\ tstat.fail = "resolve"
    /\ tstat.downloaded
    /\ task.task_type = UNINSTALL
    /\ tstat.spawns = 0
    /\ tstat.acks = 0

\* C6 (Spec): when the child of a task has exited, process_task returns Ok
\* after exactly one acknowledgment, sent after the exit, with the task's id,
\* status "success" and message "Installed successfully" exactly for exit code
\* 0 and otherwise "failed" with the exit code in the message.
C6_AckAfterExit ==
    /\ tstat.acks <= 1
    /\ tstat.acks = 1 => pc = "task_return"
    /\ (pc = "ack" /\ tstat.exits = 1) => tstat.acks = 0
    /\ (pc = "task_return" /\ tstat.exits = 1) =>
          /\ tstat.acks = 1
          /\ result = "ok"
          /\ lastReq.kind = "ack"
          /\ lastReq.body.task_id = task.id
          /\ lastReq.body.status \in {"success", "failed"}
          /\ lastReq.body.status = "success" <=> tstat.exit = Some(0)
          /\ lastReq.body.status = "success" =>
                lastReq.body.text = "Installed successfully"
          /\ lastReq.body.status = "failed" =>
                /\ lastReq.body.shows_code
                /\ lastReq.body.code = tstat.exit

C6_Witness ==
    /\ pc = "task_return"
    /\ tstat.exit = Some(1)
    /\ tstat.acks = 1
    /\ result = "ok"
    /\ lastReq.body.status = "failed"

\* C7 (Spec): a task whose local file name ends in ".msi", whatever the case,
\* runs msiexec: [/x, path, /qn] for an uninstall, [/i, path] and the tokens
\* of silent_args for an install; the uninstall resolver is not consulted.
C7_MsiRouting ==
    (/\ pc \in {"spawn", "wait", "ack"}
     /\ Len(file_name) >= 4
     /\ ToLowercase(SubSeq(file_name, Len(file_name) - 3, Len(file_name)))
            = <<".", "m", "s", "i">>) =>
        /\ command_path = MSIEXEC
        /\ ~tstat.resolver
        /\ task.task_type = UNINSTALL =>
              args = << <<"/", "x">>, FilePath(platform, file_name), <<"/", "q", "n">> >>
        /\ (task.task_type # UNINSTALL /\ task.silent_args = ARGS_S) =>
              args = << <<"/", "i">>, FilePath(platform, file_name),
                        <<"/", "S">>, <<"a", " ", "b">> >>
        /\ (task.task_type # UNINSTALL /\ task.silent_args = <<>>) =>
              args = << <<"/", "i">>, FilePath(platform, file_name) >>

\* an uninstall of p.MSI for a product the registry does list
C7_Witness ==
    /\ pc = "spawn"
    /\ platform = "windows"
    /\ task.task_type = UNINSTALL
    /\ file_name = <<"p", ".", "M", "S", "I">>
    /\ IsSome(FindUninstallCommand(task.software_name, registry))
    /\ command_path = MSIEXEC

\* C8 (Spec): machine_token changes only when a heartbeat response was
\* decoded and carried a machine_token, and then to that value; once set it
\* is never unset.
C8_TokenFrame ==
    [][/\ machine_token' # machine_token =>
             /\ pc = "hb_wait"
             /\ pc' \in {"task_start", "sleep"}
             /\ IsSome(hb_token')
             /\ machine_token' = hb_token'
       /\ IsSome(machine_token) => IsSome(machine_token')
       /\ (pc = "hb_wait" /\ hb_token' = None) => machine_token' = machine_token]_vars

\* token t1 was sent with the heartbeat and the response replaced it by t2
C8_Witness ==
    /\ lastReq.kind = "heartbeat"
    /\ lastReq.machine_token = Some("t1")
    /\ hb_token = Some("t2")
    /\ machine_token = Some("t2")

\* the claim's reading of the tokenizer: the pieces between separators, each
\* cut before every upper-case letter but its first character
RECURSIVE CamelPieces(_, _)
CamelPieces(seg, current) ==
    IF seg = <<>> THEN (IF current = <<>> THEN <<>> ELSE <<current>>)
    ELSE IF IsUppercase(Head(seg)) /\ current # <<>>
         THEN <<current>> \o CamelPieces(Tail(seg), <<Head(seg)>>)
         ELSE CamelPieces(Tail(seg), Append(current, Head(seg)))

RECURSIVE ClaimedWords(_)
ClaimedWords(segs) ==
    IF segs = <<>> THEN <<>>
    ELSE CamelPieces(Head(segs), <<>>) \o ClaimedWords(Tail(segs))

ClaimedKeywords(name) ==
    LET words == ClaimedWords(SplitAny(name, {"_", "-", " ", "."}))
        lower == [i \in DOMAIN words |-> ToLowercase(words[i])]
    IN  SelectSeq(lower, LAMBDA w : Len(w) >= 3 /\ w \notin Range(STOP_WORDS))

\* C9 (SpecFind): the score of an entry is the number of extracted keywords
\* that are substrings of its lower-cased display name; it qualifies exactly
\* when score >= 2, or score >= 1 with a single keyword; so with more than
\* one keyword extracted an entry whose display name contains only one of the
\* words does not qualify, and {zoom} against "Zoom" qualifies.
C9_ScoreClaim ==
    (pc = "find_scan" /\ ri > 1) =>
        LET entry == registry[ri - 1]
            hits == {i \in DOMAIN keywords :
                        Contains(DisplayNameLower(entry), keywords[i])}
            words == {keywords[i] : i \in hits}
        IN  /\ match_score = Cardinality(hits)
            /\ qualified <=>
                  (match_score >= 2 \/ (match_score >= 1 /\ Len(keywords) = 1))
            /\ (Cardinality(Range(keywords)) > 1 /\ Cardinality(words) = 1) =>
                  ~qualified
            /\ (keywords = << <<"z", "o", "o", "m">> >>
                /\ entry.DisplayName = Some(<<"Z", "o", "o", "m">>)) => qualified

\* C10 (SpecKeywords): extract_keywords returns, in order, the lower-cased
\* words of at least 3 characters that are no stop words; every keyword is
\* lower-case, at least 3 characters long and no stop word;
\* BraveBrowserStandaloneSilentNightlySetup gives brave, browser, nightly.
C10_KeywordsClaim ==
    pc = "find_scan" =>
        /\ keywords = ClaimedKeywords(software_name)
        /\ \A i \in DOMAIN keywords :
              /\ keywords[i] = ToLowercase(keywords[i])
              /\ Len(keywords[i]) >= 3
              /\ keywords[i] \notin Range(STOP_WORDS)
        /\ software_name = NAME_BRAVE => keywords = KW_BRAVE

(***************************************************************************)
(* process_task at step 2 with one task                                    *)
(*                                                                         *)
(* AtBuild(t) is the state in which process_task, called for the only     *)
(* task t of a poll response, has made its directory and written the      *)
(* downloaded file, and is about to build the command.                    *)
(***************************************************************************)
AtBuild(t) ==
    /\ host = HOST_LOOP
    /\ pc = "build"
    /\ machine_token = None
    /\ lastReq = DownloadRequest(t)
    /\ hb_token = None
    /\ batch = <<t>>
    /\ idx = 1
    /\ ptoken = None
    /\ file_name = LocalFileName(platform, t.download_url)
    /\ command_path = <<>>
    /\ args = <<>>
    /\ parsed = None
    /\ children = {}
    /\ ack = None
    /\ result = "none"
    /\ tstat = [NoTstat EXCEPT !.tmpdir = TRUE, !.downloaded = TRUE]
    /\ sys_info = GetSystemInfo(HOST_LOOP)
    /\ cyc = [NoCycle EXCEPT !.kind = "other", !.fx = {"tmpdir", "download"}]
    /\ FindStart

(***************************************************************************)
(* parse_command_string over all short registry commands                   *)
(*                                                                         *)
(* An uninstall of "AbcTool" is resolved against a registry of one entry, *)
(* "Abc Tool", whose UninstallString ranges over every string of at most  *)
(* MaxCmdLen characters of CmdChars and over the two commands named.      *)
(***************************************************************************)
MaxCmdLen == 4      \* characters of an enumerated UninstallString

CmdChars == {"\"", " ", "\t", "a"}

CMD_QUOTED == <<"\"","C",":","\\","P","r","o","g","r","a","m"," ","F","i","l","e","s","\\","A","p","p","\\","u","n","i","n","s","0","0","0",".","e","x","e","\""," ","/","V","E","R","Y","S","I","L","E","N","T">>

CMD_PLAIN == <<"u","n","i","n","s","t","a","l","l",".","e","x","e"," ","/","S">>

CommandStrings == SeqsUpTo(CmdChars, MaxCmdLen) \cup {CMD_QUOTED, CMD_PLAIN}

InitParse ==
    /\ platform = "windows"
    /\ \E cmd \in CommandStrings :
          registry = << MkEntry(Some(<<"A","b","c"," ","T","o","o","l">>),
                                None, Some(cmd)) >>
    /\ AtBuild(MkTask(4, UNINSTALL, NAME_TOOL, URL_EXE, <<>>))

NextParse == Build

SpecParse == InitParse /\ [][NextParse]_vars

\* what C11 says of the pair parse_command_string returns for the registry
\* command raw, with quoted_tail the tail it names for CMD_QUOTED
ParseRule(raw, p, quoted_tail) ==
    LET input == Trim(raw)
        n == Len(input)
        quotes == {q \in 2..n : input[q] = "\""}
        spaces == {k \in 1..n : input[k] = " "}
    IN  /\ (n > 0 /\ input[1] = "\"" /\ quotes # {}) =>
              \E q \in quotes :
                 /\ \A j \in quotes : q <= j
                 /\ p.exe = SubSeq(input, 2, q - 1)
                 /\ p.rest = SubSeq(input, q + 1, n)
        /\ (n = 0 \/ input[1] # "\"") =>
              IF spaces # {}
              THEN \E k \in spaces :
                      /\ \A j \in spaces : k <= j
                      /\ p.exe = SubSeq(input, 1, k - 1)
                      /\ p.rest = SubSeq(input, k + 1, n)
              ELSE p.exe = input /\ p.rest = <<>>
        /\ raw = CMD_QUOTED =>
              /\ p.exe = <<"C",":","\\","P","r","o","g","r","a","m"," ","F","i","l","e","s","\\","A","p","p","\\","u","n","i","n","s","0","0","0",".","e","x","e">>
              /\ p.rest = quoted_tail
        /\ raw = CMD_PLAIN =>
              /\ p.exe = <<"u","n","i","n","s","t","a","l","l",".","e","x","e">>
              /\ p.rest = <<"/","S">>

MaxArgLen == 4      \* characters of an enumerated silent_args

ArgChars == {"\"", " ", "\t", "a", "b"}

ARGS_FLAG == <<"/","S"," ","\"","-","-","f","l","a","g"," ","v","a","l","u","e","\"">>

ArgStrings == SeqsUpTo(ArgChars, MaxArgLen) \cup {ARGS_FLAG}

InitSplit ==
    /\ platform \in Platforms
    /\ registry = IF platform = "windows" THEN LoopRegistry ELSE <<>>
    /\ \E sargs \in ArgStrings :
          AtBuild(MkTask(3, "install", NAME_TOOL, URL_EXE, sargs))

NextSplit == Build

SpecSplit == InitSplit /\ [][NextSplit]_vars

\* position i of input lies after an odd number of quote characters
InsideQuotes(input, i) ==
    Cardinality({j \in 1..(i - 1) : input[j] = "\""}) % 2 = 1

\* position i of input holds whitespace outside quotes
UnquotedSpace(input, i) ==
    IsWhitespace(input[i]) /\ ~InsideQuotes(input, i)

\* input without its quote characters and its unquoted whitespace
QuoteStripped(input) ==
    LET keep == SelectSeq([i \in 1..Len(input) |-> i],
                          LAMBDA i : input[i] # "\"" /\ ~UnquotedSpace(input, i))
    IN  [k \in 1..Len(keep) |-> input[keep[k]]]

\* the characters input keeps between its g-th unquoted whitespace and the next
TokenPiece(input, g) ==
    LET keep == SelectSeq([i \in 1..Len(input) |-> i],
                          LAMBDA i : /\ input[i] # "\""
                                     /\ ~UnquotedSpace(input, i)
                                     /\ Cardinality({j \in 1..(i - 1) :
                                                       UnquotedSpace(input, j)}) = g)
    IN  [k \in 1..Len(keep) |-> input[keep[k]]]

\* the tokens C12 describes: the non-empty pieces, in order
ClaimedTokens(input) ==
    LET breaks == Cardinality({j \in 1..Len(input) : UnquotedSpace(input, j)})
    IN  SelectSeq([g \in 1..(breaks + 1) |-> TokenPiece(input, g - 1)],
                  LAMBDA piece : piece # <<>>)

RECURSIVE Flatten(_)
Flatten(tokens) ==
    IF tokens = <<>> THEN <<>> ELSE Head(tokens) \o Flatten(Tail(tokens))

\* C12: for every silent_args, split_args returns the pieces between unquoted
\* whitespace with the quotes left out: no token is empty, none holds a quote,
\* the tokens hold as many whitespace characters as the input holds inside
\* quotes, and together they are the input without its quotes and its
\* unquoted whitespace; ARGS_FLAG gives "/S" and "--flag value".
C12_SplitArgs ==
    pc = "spawn" =>
       LET input == task.silent_args IN
       /\ args = ClaimedTokens(input)
       /\ \A k \in DOMAIN args :
             /\ args[k] # <<>>
             /\ \A j \in DOMAIN args[k] : args[k][j] # "\""
       /\ Flatten(args) = QuoteStripped(input)
       /\ Len(SelectSeq(Flatten(args), IsWhitespace))
             = Cardinality({i \in 1..Len(input) :
                              IsWhitespace(input[i]) /\ InsideQuotes(input, i)})
       /\ input = ARGS_FLAG =>
             args = << <<"/","S">>, <<"-","-","f","l","a","g"," ","v","a","l","u","e">> >>

C12_Witness ==
    /\ pc = "spawn"
    /\ task.silent_args = <<"a", "\"", " ", "b">>
    /\ args = << <<"a", " ", "b">> >>

\* two poll cycles in a row have each decoded a response without tasks, and
\* the second is at its sleep
TwoIdleCycles ==
    pc = "sleep" /\ cyc.kind = "idle" /\ cyc.prev.idle

\* nothing but heartbeat requests has happened in the two idle cycles
IdleCyclesQuiet ==
    /\ cyc.fx = {}
    /\ cyc.prev.fx = {}
    /\ children = {}
    /\ tstat = NoTstat
    /\ lastReq.kind = "heartbeat"

\* C13, as the code has it: two consecutive cycles whose responses hold no
\* task make no directory, download no file, start no process and send no
\* ack; the session token after them is the machine_token the later response
\* carried, else the one the earlier response carried, else the token held
\* before the two cycles.
C13_IdleCyclesKeepOrAdoptToken ==
    TwoIdleCycles =>
       /\ IdleCyclesQuiet
       /\ machine_token = IF IsSome(hb_token) THEN hb_token
                          ELSE IF IsSome(cyc.prev.hb) THEN cyc.prev.hb
                          ELSE cyc.prev.tok

\* C13 as stated: the session state after the two cycles is the one before
C13_IdleCyclesClaim ==
    TwoIdleCycles =>
       /\ IdleCyclesQuiet
       /\ machine_token = cyc.prev.tok

C13_Witness ==
    /\ TwoIdleCycles
    /\ cyc.prev.tok = None
    /\ cyc.prev.hb = Some("t1")
    /\ hb_token = None
    /\ machine_token = Some("t1")

(***************************************************************************)
(* get_system_info over hosts                                              *)
(*                                                                         *)
(* The first heartbeat is built on a machine whose hostname hash has any  *)
(* byte value at the position that becomes the first byte of the pseudo   *)
(* MAC, and whose get_mac_address() gives an address, nothing or an error.*)
(***************************************************************************)
HashHighBytes == { <<0, 0>>, <<255, 171>> }

HashLowBytes == { <<26, 43, 60, 77, 94>>, <<255, 0, 128, 15, 240>> }

Hosts ==
    { [hostname |-> <<"p","c","1">>, hash |-> hi \o <<b>> \o lo, mac |-> m] :
        hi \in HashHighBytes, b \in 0..255, lo \in HashLowBytes, m \in MacResults }

InitMac ==
    /\ platform \in Platforms
    /\ registry = IF platform = "windows" THEN LoopRegistry ELSE <<>>
    /\ host \in Hosts
    /\ pc = "hb_send"
    /\ LoopStart
    /\ FindStart

NextMac == SendHeartbeat

SpecMac == InitMac /\ [][NextMac]_vars

\* the value of a lowercase hex digit, 16 for any other character
HexValue(c) ==
    IF \E v \in 0..15 : HexDigits[v + 1] = c
    THEN CHOOSE v \in 0..15 : HexDigits[v + 1] = c
    ELSE 16

\* the byte the k-th colon-separated pair of m spells
PairValue(m, k) == HexValue(m[3 * k - 2]) * 16 + HexValue(m[3 * k - 1])

\* C14: the mac_address get_system_info reports is the hardware address when
\* get_mac_address() gives one; otherwise it is six lowercase hex pairs that
\* depend on the hostname hash alone: pairs 2..6 are the last five bytes of the
\* hash, and the first pair is the sixth-from-last byte with bit 1 set, bit 0
\* clear and its other six bits unchanged.
C14_PseudoMac ==
    IsSome(sys_info) =>
       LET m == sys_info.val.mac_address
           h == host.hash
       IN  IF host.mac.kind = "ok_some"
           THEN m = host.mac.text
           ELSE /\ Len(m) = 17
                /\ \A k \in 1..5 : m[3 * k] = ":"
                /\ \A k \in 1..6 : HexValue(m[3 * k - 2]) < 16 /\ HexValue(m[3 * k - 1]) < 16
                /\ \A k \in 2..6 : PairValue(m, k) = h[k + 2]
                /\ (PairValue(m, 1) \div 2) % 2 = 1
                /\ PairValue(m, 1) % 2 = 0
                /\ PairValue(m, 1) \div 4 = h[3] \div 4

C14_Witness ==
    /\ IsSome(sys_info)
    /\ host.mac.kind = "err"
    /\ host.hash = <<255, 171, 1, 255, 0, 128, 15, 240>>
    /\ sys_info.val.mac_address
          = <<"0","2",":","f","f",":","0","0",":","8","0",":","0","f",":","f","0">>

(***************************************************************************)
(* process_task from step 2 on, over artifact names                        *)
(*                                                                         *)
(* One task, an install or an uninstall, whose artifact name has an .exe  *)
(* extension in some letter case, another extension or none, is built,    *)
(* spawned (the spawn may fail), acknowledged and returned from.          *)
(***************************************************************************)
SpawnUrls ==
    { URL_EXE, URL_MSI,
      <<"h","/","S",".","E","X","E">>, <<"h","/","s",".","E","x","e","?","v","=","2">>,
      <<"h","/",".","e","x","e">>, <<"h","/","e","x","e">>, <<"h","/","a",".","s","h">> }

InitSpawn ==
    /\ platform \in Platforms
    /\ registry = IF platform = "windows" THEN LoopRegistry ELSE <<>>
    /\ \E type \in {"install", UNINSTALL}, url \in SpawnUrls, sargs \in {<<>>, ARGS_S} :
          AtBuild(MkTask(1, type, NAME_TOOL, url, sargs))

NextSpawn ==
    \/ Build
    \/ Spawn
    \/ ChildExit
    \/ SendAck
    \/ TaskReturn

SpecSpawn == InitSpawn /\ [][NextSpawn]_vars

\* the file name ends in ".exe", in any letter case
HasExeExtension(fname) ==
    /\ Len(fname) >= 4
    /\ fname[Len(fname) - 3] = "."
    /\ fname[Len(fname) - 2] \in {"e", "E"}
    /\ fname[Len(fname) - 1] \in {"x", "X"}
    /\ fname[Len(fname)] \in {"e", "E"}

\* C15: once Command::status() has failed to start the command, a linux agent
\* holding an artifact named *.exe (any letter case) sends one ack with status
\* "success" and the text "Simulated success on Linux" and returns Ok; in
\* every other case process_task returns Err and sends no ack.
C15_SpawnFailure ==
    tstat.spawn_err =>
       IF platform = "linux" /\ HasExeExtension(file_name)
       THEN /\ tstat.spawns = 0
            /\ ack = Some([status |-> "success", text |-> "Simulated success on Linux",
                           shows_code |-> FALSE, code |-> None])
            /\ \/ pc = "ack" /\ tstat.acks = 0
               \/ /\ pc = "task_return"
                  /\ result = "ok"
                  /\ tstat.acks = 1
                  /\ lastReq.kind = "ack"
                  /\ lastReq.body.status = "success"
                  /\ lastReq.body.text = "Simulated success on Linux"
       ELSE /\ pc = "task_return"
            /\ result = "err"
            /\ tstat.fail = "spawn"
            /\ tstat.acks = 0
            /\ ack = None
            /\ lastReq.kind # "ack"

C15_Witness ==
    /\ tstat.spawn_err
    /\ platform = "linux"
    /\ file_name = <<"S", ".", "E", "X", "E">>
    /\ pc = "task_return"
    /\ lastReq.kind = "ack"

\* the entry exposes an uninstall command
HasCommand(entry) ==
    IsSome(entry.QuietUninstallString) \/ IsSome(entry.UninstallString)

\* the command C16 names for an entry: the quiet one if present
CommandOf(entry) ==
    IF IsSome(entry.QuietUninstallString)
    THEN entry.QuietUninstallString.val
    ELSE entry.UninstallString.val

\* C16: when the scan is over, the result is the command of the qualifying
\* entry with a command that has the highest score, the earliest scanned
\* among those of that score, and it is the QuietUninstallString of that entry
\* if it has one and its UninstallString otherwise; the result is none exactly
\* when no qualifying entry has a command.
C16_BestEntryWins ==
    pc = "find_done" =>
       LET cand == {i \in DOMAIN registry :
                      Qualifies(keywords, registry[i]) /\ HasCommand(registry[i])}
       IN  IF cand = {}
           THEN best_match = None
           ELSE \E w \in cand :
                   /\ \A j \in cand :
                         \/ MatchScore(keywords, registry[j]) < MatchScore(keywords, registry[w])
                         \/ /\ MatchScore(keywords, registry[j]) = MatchScore(keywords, registry[w])
                            /\ w <= j
                   /\ IsSome(best_match)
                   /\ best_match.val.cmd = CommandOf(registry[w])

C16_Witness ==
    /\ pc = "find_done"
    /\ Len(registry) = 2
    /\ registry[1].DisplayName = Some(<<"A","b","c"," ","X","y","z">>)
    /\ registry[2].DisplayName = Some(<<"X","Y","Z"," ","A","B","C">>)
    /\ keywords = << <<"a","b","c">>, <<"x","y","z">> >>
    /\ best_match = Some([cmd |-> <<"q","2"," ","/","q">>, score |-> 2])

\* the file name ends in ".msi", in any letter case
HasMsiExtension(fname) ==
    /\ Len(fname) >= 4
    /\ fname[Len(fname) - 3] = "."
    /\ fname[Len(fname) - 2] \in {"m", "M"}
    /\ fname[Len(fname) - 1] \in {"s", "S"}
    /\ fname[Len(fname)] \in {"i", "I"}

\* the tokens of the two silent_args the tasks of SpecSpawn carry
SilentTokens(sargs) ==
    IF sargs = ARGS_S THEN << <<"/","S">>, <<"a"," ","b">> >> ELSE <<>>

\* C17: the command about to be spawned.  An uninstall of a non-.msi artifact
\* that the registry resolved runs the executable of the registry command
\* CMD_TOOL, C:\P F\u.exe, with the token of its tail, /q, followed by the
\* tokens of silent_args; an install of a non-.msi artifact runs the downloaded
\* file with the tokens of silent_args and nothing else.
C17_SpawnedCommand ==
    (pc = "spawn" /\ ~HasMsiExtension(file_name)) =>
       IF task.task_type = UNINSTALL
       THEN /\ tstat.resolver
            /\ command_path = <<"C",":","\\","P"," ","F","\\","u",".","e","x","e">>
            /\ command_path # FilePath(platform, file_name)
            /\ args = << <<"/","q">> >> \o SilentTokens(task.silent_args)
       ELSE /\ command_path = <<"<tmp>", IF platform = "windows" THEN "\\" ELSE "/">>
                                 \o file_name
            /\ args = SilentTokens(task.silent_args)

C17_Witness ==
    /\ pc = "spawn"
    /\ task.task_type = UNINSTALL
    /\ file_name = <<"S",".","E","X","E">>
    /\ args = << <<"/","q">>, <<"/","S">>, <<"a"," ","b">> >>

\* C18 (SpecName): the file name is derived from the part of download_url
\* before its first '?' alone: it is the name the same derivation gives for
\* the URL cut at its first '?', whatever follows that '?'.
C18_QueryNeverNames ==
    pc = "download" =>
       file_name = LocalFileName(platform, SplitFirst(task.download_url, "?"))

\* C19 (Spec): the request that fetches the artifact goes to the task's
\* download_url with neither the agent-token header nor the machine-token
\* header, whatever token the session holds; a request that carries either
\* header is a heartbeat or an ack and goes to the backend.
C19_DownloadCarriesNoCredential ==
    /\ lastReq.kind = "download" =>
          /\ ~lastReq.agent_token
          /\ lastReq.machine_token = None
          /\ \E t \in TaskPool : lastReq.to = t.download_url
          /\ pc \in {"build", "spawn", "wait", "ack"} => lastReq.to = task.download_url
    /\ (lastReq.agent_token \/ IsSome(lastReq.machine_token)) =>
          /\ lastReq.kind \in {"heartbeat", "ack"}
          /\ lastReq.to \in {"backend/heartbeat", "backend/ack"}

C19_Witness ==
    /\ pc = "build"
    /\ lastReq.kind = "download"
    /\ machine_token = Some("t1")
    /\ ptoken = Some("t1")

(***************************************************************************)
(* The uninstall of a non-package artifact over names and registries       *)
(*                                                                         *)
(* One uninstall task for an .exe artifact is built on windows, spawned,  *)
(* acknowledged and returned from.  Its software_name is one of the names *)
(* below, some of which give no keyword; the registry is any registry of  *)
(* the pool, or one whose entry names the product by those very words.    *)
(***************************************************************************)
KeywordlessNames ==
    { <<>>,
      <<"s","e","t","u","p">>,
      <<"a","b">>,
      <<"A","B","C">>,
      <<"S","e","t","u","p","X","6","4">>,
      <<"a","-","b"," ","c","d">>,
      <<"S","e","t","u","p","-","I","n","s","t","a","l","l","e","r">> }

UninstallNames == KeywordlessNames \cup {NAME_TOOL, <<"a","b","c">>}

REGISTRY_SETUP ==
    << MkEntry(Some(<<"S","e","t","u","p"," ","A","B","C"," ","a","b"," ","I","n","s","t","a","l","l","e","r">>),
               Some(<<"q","8">>), Some(<<"u","8">>)) >>

UninstallRegistries == Registries \cup {REGISTRY_SETUP, LoopRegistry}

InitUninstall ==
    /\ platform = "windows"
    /\ registry \in UninstallRegistries
    /\ \E name \in UninstallNames, sargs \in {<<>>, ARGS_S} :
          AtBuild(MkTask(1, UNINSTALL, name, URL_EXE, sargs))

SpecUninstall == InitUninstall /\ [][NextSpawn]_vars

\* C20: while process_task runs an uninstall whose software_name gives no
\* keyword, no entry of the registry qualifies, the lookup returns none, and
\* the task ends in Err at the lookup: no child is started and no ack sent.
C20_NoKeywordNoUninstall ==
    (idx = 1 /\ ExtractKeywords(task.software_name) = <<>>) =>
       /\ \A i \in DOMAIN registry : ~Qualifies(<<>>, registry[i])
       /\ FindUninstallCommand(task.software_name, registry) = None
       /\ pc \in {"build", "task_return"}
       /\ tstat.spawns = 0
       /\ children = {}
       /\ parsed = None
       /\ pc = "task_return" =>
             /\ result = "err"
             /\ tstat.fail = "resolve"
             /\ tstat.resolver
             /\ tstat.acks = 0

C20_Witness ==
    /\ pc = "task_return"
    /\ task.software_name = <<"A","B","C">>
    /\ Len(registry) = 2
    /\ registry[1].DisplayName = Some(<<"X","Y","Z"," ","A","B","C">>)
    /\ tstat.fail = "resolve"

====
